---- MODULE Spec2Model ----
(***************************************************************************)
(* Model of the TAP editor integration of vscode-tap (out/extension.js):   *)
(* the line classifier (the two regular expressions and the trimmed-text   *)
(* tests), the grouping pass parseTapContent and the two folding passes    *)
(* TapFoldingProvider.provideFoldingRanges (plan-stack and current-test).  *)
(*                                                                         *)
(* A document is a string; lines are TLA+ strings, read character by       *)
(* character (Char) the way the regular expressions read them.  Line       *)
(* indices are zero-based as in the code; lines[i + 1] is line i.          *)
(***************************************************************************)
EXTENDS Integers, Sequences, FiniteSets, TLC

(***************************************************************************)
(* Bounds of the model.                                                    *)
(***************************************************************************)
\* largest number of lines of a document
MaxLines == 4

\* the lines a document is made of: test results with ordinals that rise,
\* repeat and fall, plan lines at three indentations, a plan line followed
\* by a space, YAML delimiters, an empty line, a line of one space and a
\* diagnostic line
LineSet ==
    { "ok 1", "not ok 2 - b", "1..2", "  1..1", "    1..3", "1..2 ",
      "  ---", "...", "", " ", "# x" }

\* largest number of lines of a document handed to the test provider and
\* to the diagnostics provider
MaxHostLines == 3

\* the lines such a document is made of: results with and without the
\* directives in several letter cases, with a '#TODO' that is no directive,
\* with and without a duration clause, a 'not ok' without number and a
\* diagnostic line
HostLineSet ==
    { "not ok 2 - b", "# x",
      "ok 1 - a # ToDo", "not ok 2 - b # todo", "not ok 2 # SKIP # TODO",
      "ok 3 # Skip # Todo", "not ok 1 - c # skip", "ok 2 #TODO",
      "ok 1 - done in 1.5s", "ok 2 - e In 304MS # SKIP",
      "ok 2 - in 5ms", "not ok - z" }

(***************************************************************************)
(* Characters and strings.                                                 *)
(***************************************************************************)
Char(s, p) == SubSeq(s, p, p)

\* \s of a JavaScript regular expression, and the characters trim() removes
IsSpace(c) == c \in {" ", "\t", "\r"}

\* \d
IsDigit(c) == c \in {"0", "1", "2", "3", "4", "5", "6", "7", "8", "9"}

\* first position >= p of s that holds no whitespace (Len(s) + 1 if none):
\* where a greedy \s* started at p stops
RECURSIVE SpanSpace(_, _)
SpanSpace(s, p) ==
    IF p <= Len(s) /\ IsSpace(Char(s, p)) THEN SpanSpace(s, p + 1) ELSE p

\* where a greedy \d* started at p stops
RECURSIVE SpanDigit(_, _)
SpanDigit(s, p) ==
    IF p <= Len(s) /\ IsDigit(Char(s, p)) THEN SpanDigit(s, p + 1) ELSE p

\* last position <= p of s that holds no whitespace (0 if none)
RECURSIVE SpanSpaceBack(_, _)
SpanSpaceBack(s, p) ==
    IF p >= 1 /\ IsSpace(Char(s, p)) THEN SpanSpaceBack(s, p - 1) ELSE p

\* the literal t stands in s at position p
StartsWithAt(s, p, t) ==
    /\ p + Len(t) - 1 <= Len(s)
    /\ SubSeq(s, p, p + Len(t) - 1) = t

\* String.prototype.trimStart and String.prototype.trim
TrimStart(s) == SubSeq(s, SpanSpace(s, 1), Len(s))
Trim(s) == SubSeq(s, SpanSpace(s, 1), SpanSpaceBack(s, Len(s)))

\* value of one decimal digit
DigitValue(c) ==
    CASE c = "0" -> 0 [] c = "1" -> 1 [] c = "2" -> 2 [] c = "3" -> 3
      [] c = "4" -> 4 [] c = "5" -> 5 [] c = "6" -> 6 [] c = "7" -> 7
      [] c = "8" -> 8 [] c = "9" -> 9

\* parseInt(d, 10) of a non-empty string of digits.  (JavaScript numbers are
\* doubles: the value is exact below 2^53, far above the ordinals used here.)
RECURSIVE ParseInt(_)
ParseInt(d) ==
    IF Len(d) = 0 THEN 0
    ELSE 10 * ParseInt(SubSeq(d, 1, Len(d) - 1)) + DigitValue(Char(d, Len(d)))

\* position of the first line terminator of s at or after p (Len(s) + 1 if
\* none): where a greedy .* started at p stops
RECURSIVE SpanDot(_, _)
SpanDot(s, p) ==
    IF p <= Len(s) /\ Char(s, p) # "\r" THEN SpanDot(s, p + 1) ELSE p

(***************************************************************************)
(* The document and its lines.                                             *)
(***************************************************************************)
\* the lines joined by line feeds
RECURSIVE Join(_)
Join(ls) ==
    IF Len(ls) = 0 THEN ""
    ELSE IF Len(ls) = 1 THEN ls[1]
    ELSE ls[1] \o "\n" \o Join(Tail(ls))

\* text.split('\n'): never empty, the empty text gives one empty line
RECURSIVE SplitFrom(_, _, _)
SplitFrom(s, from, p) ==
    IF p > Len(s) THEN << SubSeq(s, from, Len(s)) >>
    ELSE IF Char(s, p) = "\n"
         THEN << SubSeq(s, from, p - 1) >> \o SplitFrom(s, p + 1, p + 1)
         ELSE SplitFrom(s, from, p + 1)

Split(s) == SplitFrom(s, 1, 1)

\* sequences of 1..n lines of LineSet
Docs(n) == UNION { [1..k -> LineSet] : k \in 1..n }

\* sequences of 1..n lines of HostLineSet
HostDocs(n) == UNION { [1..k -> HostLineSet] : k \in 1..n }

(***************************************************************************)
(* Line classifier.                                                        *)
(***************************************************************************)
NoMatch == [matched |-> FALSE]

\* /^(\s*)(ok|not ok)\s+(\d+)(?:\s+(?:-\s+)?(.*))?/ applied to a line.
\* m1 = group 1, m2 = group 2, m3 = group 3, m4 = group 4 ("" if it took no
\* part).  Every quantifier is greedy and none has to give back characters.
TEST_RESULT_REGEX(line) ==
    LET p1 == SpanSpace(line, 1)
        tok == IF StartsWithAt(line, p1, "ok") THEN "ok"
               ELSE IF StartsWithAt(line, p1, "not ok") THEN "not ok"
               ELSE ""
        p2 == p1 + Len(tok)
        p3 == SpanSpace(line, p2)
        p4 == SpanDigit(line, p3)
        p5 == SpanSpace(line, p4)
        p6 == IF p5 <= Len(line) /\ Char(line, p5) = "-"
                 /\ SpanSpace(line, p5 + 1) > p5 + 1
              THEN SpanSpace(line, p5 + 1) ELSE p5
    IN  IF tok # "" /\ p3 > p2 /\ p4 > p3
        THEN [matched |-> TRUE,
              m1 |-> SubSeq(line, 1, p1 - 1),
              m2 |-> tok,
              m3 |-> SubSeq(line, p3, p4 - 1),
              m4 |-> IF p5 > p4 THEN SubSeq(line, p6, SpanDot(line, p6) - 1)
                     ELSE ""]
        ELSE NoMatch

\* /^(\s*)(\d+)\.\.(\d+)$/ applied to a line
TEST_PLAN_REGEX(line) ==
    LET p1 == SpanSpace(line, 1)
        p2 == SpanDigit(line, p1)
        p3 == p2 + 2
        p4 == SpanDigit(line, p3)
    IN  IF p2 > p1 /\ StartsWithAt(line, p2, "..") /\ p4 > p3
           /\ p4 = Len(line) + 1
        THEN [matched |-> TRUE,
              m1 |-> SubSeq(line, 1, p1 - 1),
              m2 |-> SubSeq(line, p1, p2 - 1),
              m3 |-> SubSeq(line, p3, p4 - 1)]
        ELSE NoMatch

\* /^(\d+)\.\.(\d+)$/ applied to the trimmed line (plan-stack folding)
TrimmedPlanMatch(trimmedLine) ==
    LET p2 == SpanDigit(trimmedLine, 1)
        p3 == p2 + 2
        p4 == SpanDigit(trimmedLine, p3)
    IN  IF p2 > 1 /\ StartsWithAt(trimmedLine, p2, "..") /\ p4 > p3
           /\ p4 = Len(trimmedLine) + 1
        THEN [matched |-> TRUE,
              m1 |-> SubSeq(trimmedLine, 1, p2 - 1),
              m2 |-> SubSeq(trimmedLine, p3, p4 - 1)]
        ELSE NoMatch

\* trimmedLine === '---' and lines[j].trim() === '...'
IsYamlOpen(line) == Trim(line) = "---"
IsYamlClose(line) == Trim(line) = "..."

\* line.trim() is the empty string (falsy)
IsBlank(line) == Trim(line) = ""

(***************************************************************************)
(* Directives, description and duration of a test-result line.             *)
(***************************************************************************)
LowerLetters == "abcdefghijklmnopqrstuvwxyz"
UpperLetters == "ABCDEFGHIJKLMNOPQRSTUVWXYZ"

\* the lower-case letter of every upper-case letter
LowerOf ==
    [c \in { Char(UpperLetters, n) : n \in 1..26 } |->
        Char(LowerLetters, CHOOSE n \in 1..26 : Char(UpperLetters, n) = c)]

\* the character c as the i flag of a regular expression compares it, and
\* as toLowerCase() returns it
ToLowerChar(c) == IF c \in DOMAIN LowerOf THEN LowerOf[c] ELSE c

\* String.prototype.toLowerCase
RECURSIVE ToLowerCase(_)
ToLowerCase(s) ==
    IF Len(s) = 0 THEN ""
    ELSE ToLowerChar(Char(s, 1)) \o ToLowerCase(Tail(s))

\* the literal t stands in s at position p, letter case ignored
StartsWithAtCI(s, p, t) ==
    /\ p + Len(t) - 1 <= Len(s)
    /\ ToLowerChar(Char(s, p)) = ToLowerChar(Char(t, 1))
    /\ ToLowerCase(SubSeq(s, p, p + Len(t) - 1)) = ToLowerCase(t)

\* /t/i.test(s) for a literal t
TestCI(s, t) == \E p \in 1..Len(s) : StartsWithAtCI(s, p, t)

\* HasTodo without the "# " of the pattern
HasTodo_Token(line) == TestCI(line, "TODO")

\* /# TODO/i.test(line) and /# SKIP/i.test(line)
HasTodo(line) == TestCI(line, "# TODO")
HasSkip(line) == TestCI(line, "# SKIP")

\* position of the first '#' of s at or after p (Len(s) + 1 if none)
RECURSIVE SpanToHash(_, _)
SpanToHash(s, p) ==
    IF p <= Len(s) /\ Char(s, p) # "#" THEN SpanToHash(s, p + 1) ELSE p

\* rest.replace(/#.*$/, '').trim() || `Test ${testNumber}`
Description(rest, testNumber) ==
    LET cleaned == Trim(SubSeq(rest, 1, SpanToHash(rest, 1) - 1))
    IN  IF cleaned # "" THEN cleaned ELSE "Test " \o ToString(testNumber)

\* end of the (?:\.\d+)? of the duration pattern tried at q: behind the
\* fraction if there is one, q itself if not
FractionEnd(d, q) ==
    IF q <= Len(d) /\ Char(d, q) = "." /\ SpanDigit(d, q + 1) > q + 1
    THEN SpanDigit(d, q + 1) ELSE q

\* end of the (ms|s) of the duration pattern tried at q, q itself if neither
\* stands there
UnitEnd(d, q) ==
    IF StartsWithAtCI(d, q, "ms") THEN q + 2
    ELSE IF StartsWithAtCI(d, q, "s") THEN q + 1
    ELSE q

\* the rest of the duration pattern behind the number d[q3..q5-1]: the unit,
\* ending at q6, and \s*$
DurationUnit(d, p, q3, q5, q6) ==
    IF q6 > q5 /\ SpanSpace(d, q6) = Len(d) + 1
    THEN [matched |-> TRUE, index |-> p,
          m1 |-> SubSeq(d, q3, q5 - 1), m2 |-> SubSeq(d, q5, q6 - 1)]
    ELSE NoMatch

\* the duration pattern behind its 'in', which ends before q2: \s+ up to q3,
\* \d+ up to q4, then the fraction and the unit
DurationNumber(d, p, q2, q3, q4) ==
    IF q3 > q2 /\ q4 > q3
    THEN DurationUnit(d, p, q3, FractionEnd(d, q4),
                      UnitEnd(d, FractionEnd(d, q4)))
    ELSE NoMatch

\* the duration pattern behind its first \s+, which ends before q1
DurationIn(d, p, q1) ==
    IF q1 > p /\ StartsWithAtCI(d, q1, "in")
    THEN DurationNumber(d, p, q1 + 2, SpanSpace(d, q1 + 2),
                        SpanDigit(d, SpanSpace(d, q1 + 2)))
    ELSE NoMatch

\* /\s+in\s+(\d+(?:\.\d+)?)(ms|s)\s*$/i tried on description at position p
DurationAt(description, p) ==
    DurationIn(description, p, SpanSpace(description, p))

\* the leftmost match of the duration pattern at or after position p
RECURSIVE DurationFrom(_, _)
DurationFrom(description, p) ==
    IF p > Len(description) THEN NoMatch
    ELSE IF DurationAt(description, p).matched
    THEN DurationAt(description, p)
    ELSE DurationFrom(description, p + 1)

\* description.match(/\s+in\s+(\d+(?:\.\d+)?)(ms|s)\s*$/i)
DurationMatch(description) == DurationFrom(description, 1)

\* 10 to the power n
RECURSIVE Pow10(_)
Pow10(n) == IF n = 0 THEN 1 ELSE 10 * Pow10(n - 1)

\* a decimal number num / den, den a power of ten, in lowest such terms.
\* (The code computes in doubles; the model computes the exact decimal.)
RECURSIVE Decimal(_, _)
Decimal(num, den) ==
    IF den > 1 /\ num % 10 = 0 THEN Decimal(num \div 10, den \div 10)
    ELSE [num |-> num, den |-> den]

\* parseFloat of digits with an optional fraction
ParseFloat(d) ==
    LET dot == SpanDigit(d, 1)
        frac == SubSeq(d, dot + 1, Len(d))
    IN  Decimal(ParseInt(SubSeq(d, 1, dot - 1)) * Pow10(Len(frac))
                    + ParseInt(frac),
                Pow10(Len(frac)))

\* ToMilliseconds without the conversion of seconds
ToMilliseconds_NoScale(value, unit) == value

\* unit === 's' ? value * 1000 : value
ToMilliseconds(value, unit) ==
    IF unit = "s" THEN Decimal(value.num * 1000, value.den) ELSE value

\* duration of a matched description, << >> (undefined) without a match
Duration(durationMatch) ==
    IF durationMatch.matched
    THEN << ToMilliseconds(ParseFloat(durationMatch.m1),
                           ToLowerCase(durationMatch.m2)) >>
    ELSE << >>

\* description.replace(/\s+in\s+\d+(?:\.\d+)?(?:ms|s)\s*$/i, '').trim()
WithoutDuration(description, durationMatch) ==
    IF durationMatch.matched
    THEN Trim(SubSeq(description, 1, durationMatch.index - 1))
    ELSE description

(***************************************************************************)
(* State.                                                                  *)
(***************************************************************************)
VARIABLES
    text,            \* the document text handed to the operation
    op,              \* the operation called: "parse", "planStack", "currentTest",
                     \*   "updateTests", "diagnostics"
    pc,              \* "scan" while the for loop runs, "done" after return
    lines,           \* text.split('\n')
    i,               \* loop index of the for loop
    groups,          \* parseTapContent: sealed groups
    currentGroup,    \* parseTapContent: << >> (null) or << group >>
    currentTest,     \* parseTapContent: 0 (null) or the index in
                     \*   currentGroup's tests of the record it refers to
    lastTestNumber,  \* parseTapContent: ordinal of the last record
    foldingRanges,   \* provideFoldingRanges: regions pushed so far
    stack,           \* plan-stack folding: open plans, top last
    currentTestLine, \* current-test folding: open test line or -1
    languageId,      \* document.languageId
    documents,       \* TapTestProvider.documents: the uris tracked
    items,           \* the test items of the controller: the file items
                     \*   (parent "") and the items of their children
    testItems,       \* TapTestProvider.testItems: the items by id
    allTestItems,    \* updateTestsForDocument: the {item, test} pairs
    run,             \* the test run: its state, request and calls
    diagnostics,     \* updateDiagnostics: the diagnostics pushed so far
    diagnosticCollection  \* the diagnostics set for the document:
                     \*   << >> (none set) or << diagnostics >>

vars == << text, op, pc, lines, i, groups, currentGroup, currentTest,
           lastTestNumber, foldingRanges, stack, currentTestLine,
           languageId, documents, items, testItems, allTestItems, run,
           diagnostics, diagnosticCollection >>

parseVars == << groups, currentGroup, currentTest, lastTestNumber >>
foldVars == << foldingRanges, stack, currentTestLine >>
testVars == << documents, items, testItems, allTestItems, run >>
diagVars == << languageId, diagnostics, diagnosticCollection >>
hostVars == << testVars, diagVars >>

\* lines[i] of the code
Line(k) == lines[k + 1]

\* the test run before createTestRun
NoRun == [state |-> "none", request |-> << >>, calls |-> << >>]

\* state of every operation of ops before its loop starts, on a document of
\* docs; only updateDiagnostics is handed documents of another language
InitWith(ops, docs) ==
    /\ text \in { Join(d) : d \in docs }
    /\ op \in ops
    /\ pc = "scan"
    /\ lines = Split(text)
    /\ i = 0
    /\ groups = << >>
    /\ currentGroup = << >>
    /\ currentTest = 0
    /\ lastTestNumber = 0
    /\ foldingRanges = << >>
    /\ stack = << >>
    /\ currentTestLine = -1
    /\ languageId \in
           IF op = "diagnostics" THEN {"tap", "plaintext"} ELSE {"tap"}
    /\ documents = {}
    /\ items = {}
    /\ testItems = {}
    /\ allTestItems = << >>
    /\ run = NoRun
    /\ diagnostics = << >>
    /\ diagnosticCollection = << >>

InitOf(ops) == InitWith(ops, Docs(MaxLines))

(***************************************************************************)
(* Grouping pass: parseTapContent.                                         *)
(***************************************************************************)
\* the group opened by a plan line
PlanGroup(planMatch, k) ==
    [name |-> "Tests " \o planMatch.m2 \o ".." \o planMatch.m3,
     line |-> k, tests |-> << >>]

\* ResetGroup numbered from the count of sealed groups
ResetGroup_OffByOne(sealed, k) ==
    [name |-> "Tests (group " \o ToString(Len(sealed)) \o ")",
     line |-> k, tests |-> << >>]

\* the group opened when the test number resets
ResetGroup(sealed, k) ==
    [name |-> "Tests (group " \o ToString(Len(sealed) + 1) \o ")",
     line |-> k, tests |-> << >>]

\* the group opened by a test result when none is open
DefaultGroup(k) == [name |-> "Tests", line |-> k, tests |-> << >>]

\* IsNumberReset with < in place of <=: a repeated number does not reset
IsNumberReset_Strict(testNumber, last, cg) ==
    /\ testNumber < last
    /\ cg # << >>
    /\ Len(cg[1].tests) > 0

\* IsNumberReset with the length test off by one
IsNumberReset_LenOffByOne(testNumber, last, cg) ==
    /\ testNumber <= last
    /\ cg # << >>
    /\ Len(cg[1].tests) > 1

\* testNumber <= lastTestNumber && currentGroup && currentGroup.tests.length > 0
IsNumberReset(testNumber, last, cg) ==
    /\ testNumber <= last
    /\ cg # << >>
    /\ Len(cg[1].tests) > 0

\* the record built from a matched test-result line
TestRecord(testMatch, line, k) ==
    LET testNumber == ParseInt(testMatch.m3)
        description == Description(testMatch.m4, testNumber)
        durationMatch == DurationMatch(description)
    IN  [line |-> k,
         indent |-> Len(testMatch.m1),
         passed |-> (testMatch.m2 = "ok"),
         testNumber |-> testNumber,
         description |-> WithoutDuration(description, durationMatch),
         duration |-> Duration(durationMatch),
         hasTodo |-> HasTodo(line),
         hasSkip |-> HasSkip(line),
         fullLine |-> line,
         output |-> << >>]

\* OnPlanLine that seals the open group only when it holds tests
OnPlanLine_SealNonEmpty(st, planMatch, k) ==
    [groups |-> IF st.currentGroup # << >>
                   /\ Len(st.currentGroup[1].tests) > 0
                THEN Append(st.groups, st.currentGroup[1]) ELSE st.groups,
     currentGroup |-> << PlanGroup(planMatch, k) >>,
     currentTest |-> 0,
     lastTestNumber |-> 0]

\* the branch of a test-plan line at line k
OnPlanLine(st, planMatch, k) ==
    [groups |-> IF st.currentGroup # << >>
                THEN Append(st.groups, st.currentGroup[1]) ELSE st.groups,
     currentGroup |-> << PlanGroup(planMatch, k) >>,
     currentTest |-> 0,
     lastTestNumber |-> 0]

\* OnTestLine that forgets to push the open group when the number resets
OnTestLine_NoPush(st, testMatch, line, k) ==
    LET rec == TestRecord(testMatch, line, k)
        reset == IsNumberReset(rec.testNumber, st.lastTestNumber,
                               st.currentGroup)
        cg1 == IF reset THEN << ResetGroup(st.groups, k) >>
               ELSE st.currentGroup
        cg2 == IF cg1 = << >> THEN DefaultGroup(k) ELSE cg1[1]
        cg3 == [cg2 EXCEPT !.tests = Append(@, rec)]
    IN  [groups |-> st.groups,
         currentGroup |-> << cg3 >>,
         currentTest |-> Len(cg3.tests),
         lastTestNumber |-> rec.testNumber]

\* the branch of a test-result line at line k
OnTestLine(st, testMatch, line, k) ==
    LET rec == TestRecord(testMatch, line, k)
        reset == IsNumberReset(rec.testNumber, st.lastTestNumber,
                               st.currentGroup)
        gs == IF reset THEN Append(st.groups, st.currentGroup[1])
              ELSE st.groups
        cg1 == IF reset THEN << ResetGroup(gs, k) >> ELSE st.currentGroup
        cg2 == IF cg1 = << >> THEN DefaultGroup(k) ELSE cg1[1]
        cg3 == [cg2 EXCEPT !.tests = Append(@, rec)]
    IN  [groups |-> gs,
         currentGroup |-> << cg3 >>,
         currentTest |-> Len(cg3.tests),
         lastTestNumber |-> rec.testNumber]

\* OnOtherLine without the line.trim() test: blank lines are stored too
OnOtherLine_KeepBlank(st, line) ==
    IF st.currentTest # 0
    THEN [st EXCEPT !.currentGroup[1].tests[st.currentTest].output =
                        Append(@, line)]
    ELSE st

\* the branch of any other line: output of the current test
OnOtherLine(st, line) ==
    IF st.currentTest # 0 /\ ~IsBlank(line)
    THEN [st EXCEPT !.currentGroup[1].tests[st.currentTest].output =
                        Append(@, line)]
    ELSE st

\* one iteration of the for loop on line k, from state st
ParseLineStep(st, ls, k) ==
    LET line == ls[k + 1]
        planMatch == TEST_PLAN_REGEX(line)
        testMatch == TEST_RESULT_REGEX(line)
    IN  IF planMatch.matched THEN OnPlanLine(st, planMatch, k)
        ELSE IF testMatch.matched THEN OnTestLine(st, testMatch, line, k)
        ELSE OnOtherLine(st, line)

\* SealAtEnd that drops a last group without tests
SealAtEnd_NonEmpty(gs, cg) ==
    IF cg # << >> /\ Len(cg[1].tests) > 0 THEN Append(gs, cg[1]) ELSE gs

\* "Don't forget the last group": if (currentGroup) groups.push(currentGroup)
SealAtEnd(gs, cg) == IF cg # << >> THEN Append(gs, cg[1]) ELSE gs

ParseState ==
    [groups |-> groups, currentGroup |-> currentGroup,
     currentTest |-> currentTest, lastTestNumber |-> lastTestNumber]

\* one iteration of the for loop of parseTapContent
ParseLine ==
    /\ op = "parse" /\ pc = "scan" /\ i < Len(lines)
    /\ LET st == ParseLineStep(ParseState, lines, i)
       IN  /\ groups' = st.groups
           /\ currentGroup' = st.currentGroup
           /\ currentTest' = st.currentTest
           /\ lastTestNumber' = st.lastTestNumber
    /\ i' = i + 1
    /\ UNCHANGED << text, op, pc, lines, foldVars, hostVars >>

\* after the loop: the last group is pushed and groups is returned
ParseEnd ==
    /\ op = "parse" /\ pc = "scan" /\ i = Len(lines)
    /\ groups' = SealAtEnd(groups, currentGroup)
    /\ pc' = "done"
    /\ UNCHANGED << text, op, lines, i, currentGroup, currentTest,
                    lastTestNumber, foldVars, hostVars >>

\* the whole parseTapContent on the lines ls: the groups it returns
RECURSIVE ParseScan(_, _, _)
ParseScan(st, ls, k) ==
    IF k < Len(ls) THEN ParseScan(ParseLineStep(st, ls, k), ls, k + 1)
    ELSE SealAtEnd(st.groups, st.currentGroup)

ParseRun(ls) ==
    ParseScan([groups |-> << >>, currentGroup |-> << >>,
               currentTest |-> 0, lastTestNumber |-> 0], ls, 0)

InitParse == InitOf({"parse"})
NextParse == ParseLine \/ ParseEnd
SpecParse == InitParse /\ [][NextParse]_vars

(***************************************************************************)
(* Folding passes: TapFoldingProvider.provideFoldingRanges.                *)
(***************************************************************************)
\* new vscode.FoldingRange(start, end) and
\* new vscode.FoldingRange(start, end, vscode.FoldingRangeKind.Region)
FoldingRange(s, e) == [start |-> s, end |-> e, kind |-> "none"]
RegionRange(s, e) == [start |-> s, end |-> e, kind |-> "Region"]

\* the inner for loop of a YAML opener at line k: the first j from `from` on
\* with lines[j].trim() === '...', or -1 when the loop runs out
RECURSIVE YamlScan(_, _)
YamlScan(ls, from) ==
    IF from >= Len(ls) THEN -1
    ELSE IF IsYamlClose(ls[from + 1]) THEN from
    ELSE YamlScan(ls, from + 1)

\* YamlEnd that runs the scan to the end: the last closer, not the first
YamlEnd_Last(ls, k) ==
    LET S == { j \in (k + 1)..(Len(ls) - 1) : IsYamlClose(ls[j + 1]) }
    IN  IF S = {} THEN -1 ELSE CHOOSE j \in S : \A m \in S : m <= j

YamlEnd(ls, k) == YamlScan(ls, k + 1)

\* PushYaml that closes an unterminated block at the last line
PushYaml_ToLastLine(ranges, ls, k) ==
    LET j == YamlEnd(ls, k)
    IN  IF j >= 0 THEN Append(ranges, RegionRange(k, j))
        ELSE Append(ranges, RegionRange(k, Len(ls) - 1))

\* the regions after the YAML opener at line k was handled
PushYaml(ranges, ls, k) ==
    LET j == YamlEnd(ls, k)
    IN  IF j >= 0 THEN Append(ranges, RegionRange(k, j)) ELSE ranges

(***************************************************************************)
(* Plan-stack policy.                                                      *)
(***************************************************************************)
\* line.length - line.trimStart().length
Indentation(line) == Len(line) - Len(TrimStart(line))

\* ClosesOnPlan with > in place of >=: a sibling plan stays open
ClosesOnPlan_Strict(top, indentation) == top.indent > indentation

\* stack[stack.length - 1].indent >= indentation
ClosesOnPlan(top, indentation) == top.indent >= indentation

\* SpansLines without the gap: a range of one line is pushed too
SpansLines_NoGap(startLine, endLine) == startLine <= endLine

\* prev.startLine < i - 1 and prev.startLine < lines.length - 1, with
\* endLine the i - 1 or lines.length - 1 the region would end at
SpansLines(startLine, endLine) == startLine < endLine

\* LastLine one past the end: lines.length in place of lines.length - 1
LastLine_OnePast(ls) == Len(ls)

\* last line a stack entry left open at end of input is closed against
LastLine(ls) == Len(ls) - 1

\* PopOnPlan with an if in place of the while: pops one entry at most
PopOnPlan_Once(st, indentation, k) ==
    IF Len(st.stack) > 0 /\ ClosesOnPlan(st.stack[Len(st.stack)], indentation)
    THEN LET prev == st.stack[Len(st.stack)]
         IN  [stack |-> SubSeq(st.stack, 1, Len(st.stack) - 1),
              foldingRanges |->
                  IF SpansLines(prev.startLine, k - 1)
                  THEN Append(st.foldingRanges,
                              FoldingRange(prev.startLine, k - 1))
                  ELSE st.foldingRanges]
    ELSE st

\* the while loop of a plan line at line k: pops and closes against k - 1
RECURSIVE PopOnPlan(_, _, _)
PopOnPlan(st, indentation, k) ==
    IF Len(st.stack) > 0 /\ ClosesOnPlan(st.stack[Len(st.stack)], indentation)
    THEN LET prev == st.stack[Len(st.stack)]
         IN  PopOnPlan(
                 [stack |-> SubSeq(st.stack, 1, Len(st.stack) - 1),
                  foldingRanges |->
                      IF SpansLines(prev.startLine, k - 1)
                      THEN Append(st.foldingRanges,
                                  FoldingRange(prev.startLine, k - 1))
                      ELSE st.foldingRanges],
                 indentation, k)
    ELSE st

\* the while loop after the for loop: pops and closes against the last line
RECURSIVE PopAtEnd(_, _)
PopAtEnd(st, ls) ==
    IF Len(st.stack) > 0
    THEN LET prev == st.stack[Len(st.stack)]
         IN  PopAtEnd(
                 [stack |-> SubSeq(st.stack, 1, Len(st.stack) - 1),
                  foldingRanges |->
                      IF SpansLines(prev.startLine, LastLine(ls))
                      THEN Append(st.foldingRanges,
                                  FoldingRange(prev.startLine, LastLine(ls)))
                      ELSE st.foldingRanges],
                 ls)
    ELSE st

\* one iteration of the for loop on line k, from state st
PlanStackStep(st, ls, k) ==
    LET line == ls[k + 1]
        trimmedLine == Trim(line)
        indentation == Indentation(line)
        planMatch == TrimmedPlanMatch(trimmedLine)
    IN  IF planMatch.matched
        THEN LET popped == PopOnPlan(st, indentation, k)
             IN  [popped EXCEPT !.stack =
                      Append(@, [startLine |-> k, indent |-> indentation])]
        ELSE IF trimmedLine = "---"
        THEN [st EXCEPT !.foldingRanges = PushYaml(@, ls, k)]
        ELSE st

PlanStackState == [stack |-> stack, foldingRanges |-> foldingRanges]

\* one iteration of the for loop of the plan-stack provideFoldingRanges
PlanStackLine ==
    /\ op = "planStack" /\ pc = "scan" /\ i < Len(lines)
    /\ LET st == PlanStackStep(PlanStackState, lines, i)
       IN  /\ stack' = st.stack
           /\ foldingRanges' = st.foldingRanges
    /\ i' = i + 1
    /\ UNCHANGED << text, op, pc, lines, parseVars, currentTestLine,
                    hostVars >>

\* after the loop: the remaining entries are closed, foldingRanges returned
PlanStackEnd ==
    /\ op = "planStack" /\ pc = "scan" /\ i = Len(lines)
    /\ LET st == PopAtEnd(PlanStackState, lines)
       IN  /\ stack' = st.stack
           /\ foldingRanges' = st.foldingRanges
    /\ pc' = "done"
    /\ UNCHANGED << text, op, lines, i, parseVars, currentTestLine,
                    hostVars >>

\* the whole plan-stack provideFoldingRanges on the lines ls
RECURSIVE PlanStackScan(_, _, _)
PlanStackScan(st, ls, k) ==
    IF k < Len(ls) THEN PlanStackScan(PlanStackStep(st, ls, k), ls, k + 1)
    ELSE PopAtEnd(st, ls)

PlanStackRun(ls) ==
    PlanStackScan([stack |-> << >>, foldingRanges |-> << >>], ls, 0)
        .foldingRanges

(***************************************************************************)
(* Current-test policy.                                                    *)
(***************************************************************************)
\* HasGap with >= in place of >: adjacent lines fold too
HasGap_Adjacent(current, k) == current >= 0 /\ k >= current + 1

\* currentTestLine >= 0 && i > currentTestLine + 1, with k the i or the
\* lines.length of the closing place
HasGap(current, k) == current >= 0 /\ k > current + 1

\* the regions after the open test (if any) was closed before line k
CloseTest(ranges, current, k) ==
    IF HasGap(current, k) THEN Append(ranges, FoldingRange(current, k - 1))
    ELSE ranges

\* one iteration of the for loop on line k, from state st
CurrentTestStep(st, ls, k) ==
    LET line == ls[k + 1]
        trimmedLine == Trim(line)
    IN  IF TEST_RESULT_REGEX(line).matched
        THEN [foldingRanges |-> CloseTest(st.foldingRanges,
                                          st.currentTestLine, k),
              currentTestLine |-> k]
        ELSE IF TEST_PLAN_REGEX(line).matched
        THEN [foldingRanges |-> CloseTest(st.foldingRanges,
                                          st.currentTestLine, k),
              currentTestLine |-> -1]
        ELSE IF trimmedLine = "---"
        THEN [st EXCEPT !.foldingRanges = PushYaml(@, ls, k)]
        ELSE st

CurrentTestState ==
    [foldingRanges |-> foldingRanges, currentTestLine |-> currentTestLine]

\* one iteration of the for loop of the current-test provideFoldingRanges
CurrentTestLine ==
    /\ op = "currentTest" /\ pc = "scan" /\ i < Len(lines)
    /\ LET st == CurrentTestStep(CurrentTestState, lines, i)
       IN  /\ foldingRanges' = st.foldingRanges
           /\ currentTestLine' = st.currentTestLine
    /\ i' = i + 1
    /\ UNCHANGED << text, op, pc, lines, parseVars, stack, hostVars >>

\* after the loop: the final test's range is closed, foldingRanges returned
CurrentTestEnd ==
    /\ op = "currentTest" /\ pc = "scan" /\ i = Len(lines)
    /\ foldingRanges' = CloseTest(foldingRanges, currentTestLine, Len(lines))
    /\ pc' = "done"
    /\ UNCHANGED << text, op, lines, i, parseVars, stack, currentTestLine,
                    hostVars >>

\* the whole current-test provideFoldingRanges on the lines ls
RECURSIVE CurrentTestScan(_, _, _)
CurrentTestScan(st, ls, k) ==
    IF k < Len(ls) THEN CurrentTestScan(CurrentTestStep(st, ls, k), ls, k + 1)
    ELSE CloseTest(st.foldingRanges, st.currentTestLine, Len(ls))

CurrentTestRun(ls) ==
    CurrentTestScan([foldingRanges |-> << >>, currentTestLine |-> -1], ls, 0)

InitFold == InitOf({"planStack", "currentTest"})
NextFold == PlanStackLine \/ PlanStackEnd \/ CurrentTestLine \/ CurrentTestEnd
SpecFold == InitFold /\ [][NextFold]_vars

(***************************************************************************)
(* Test provider: TapTestProvider.updateTestsForDocument (grouped).        *)
(***************************************************************************)
\* document.uri.path and document.uri.toString() of the document
UriPath == "/doc.tap"
Uri == "file://" \o UriPath

\* position of the last '/' of s at or before p (0 if none)
RECURSIVE LastSlash(_, _)
LastSlash(s, p) ==
    IF p >= 1 /\ Char(s, p) # "/" THEN LastSlash(s, p - 1) ELSE p

\* uri.path.split('/').pop()
FileName(path) == SubSeq(path, LastSlash(path, Len(path)) + 1, Len(path))

\* array.join(sep) of an array of strings
RECURSIVE JoinWith(_, _)
JoinWith(sq, sep) ==
    IF Len(sq) = 0 THEN ""
    ELSE IF Len(sq) = 1 THEN sq[1]
    ELSE sq[1] \o sep \o JoinWith(Tail(sq), sep)

\* new vscode.Range(new vscode.Position(l1, c1), new vscode.Position(l2, c2))
VsRange(l1, c1, l2, c2) == << l1, c1, l2, c2 >>

\* controller.createTestItem(id, label, uri), placed under the item parent
\* ("" for the controller's own items), with its range
TestItem(id, parent, label, range) ==
    [id |-> id, parent |-> parent, label |-> label, range |-> range]

\* TestItemCollection.add: an item of the same id in the same collection
\* is replaced
AddItem(coll, item) ==
    { x \in coll : ~(x.parent = item.parent /\ x.id = item.id) } \cup {item}

\* the items of the collection coll that lie under the item id
ItemsUnder(coll, id) ==
    LET kids == { x \in coll : x.parent = id }
    IN  kids \cup { x \in coll : \E g \in kids : x.parent = g.id }

\* Map.prototype.set(item.id, item)
SetItem(map, item) == { x \in map : x.id # item.id } \cup {item}

\* the id of the item of a test of group groupIndex, from the flat variant:
\* `${uri.toString()}#${test.testNumber}`
TestId_FromNumber(groupIndex, test) == Uri \o "#" \o ToString(test.testNumber)

\* `${uri.toString()}#${groupIndex}:${test.line}`
TestId(groupIndex, test) ==
    Uri \o "#" \o ToString(groupIndex) \o ":" \o ToString(test.line)

\* `${uri.toString()}#group${groupIndex}`
GroupId(groupIndex) == Uri \o "#group" \o ToString(groupIndex)

\* the item created for a test under the item parentId
ItemOfTest(groupIndex, test, parentId) ==
    TestItem(TestId(groupIndex, test), parentId,
             ToString(test.testNumber) \o ": " \o test.description,
             VsRange(test.line, test.indent, test.line, Len(test.fullLine)))

\* the inner for loop over group.tests, from the test at position k on
RECURSIVE AddTests(_, _, _, _, _)
AddTests(st, tests, k, groupIndex, parentId) ==
    IF k > Len(tests) THEN st
    ELSE LET testItem == ItemOfTest(groupIndex, tests[k], parentId)
         IN  AddTests(
                 [items |-> AddItem(st.items, testItem),
                  testItems |-> SetItem(st.testItems, testItem),
                  allTestItems |-> Append(st.allTestItems,
                                          [item |-> testItem,
                                           test |-> tests[k]])],
                 tests, k + 1, groupIndex, parentId)

\* one iteration of the for loop over the groups gs, on group groupIndex
AddGroup(st, gs, groupIndex) ==
    LET group == gs[groupIndex + 1]
        parentItem == TestItem(GroupId(groupIndex), Uri, group.name,
                               VsRange(group.line, 0, group.line, 0))
    IN  IF Len(gs) > 1
        THEN AddTests([st EXCEPT !.items = AddItem(@, parentItem)],
                      group.tests, 1, groupIndex, parentItem.id)
        ELSE AddTests(st, group.tests, 1, groupIndex, Uri)

\* the TestMessage of a failed test, with its location
FailureMessage(test) ==
    [text |-> IF Len(test.output) > 0 THEN JoinWith(test.output, "\n")
              ELSE "Test failed: " \o test.description,
     location |-> << Uri, test.line, test.indent >>]

\* Outcome without the hasSkip test of a record with TODO
Outcome_TodoFirst(item, test) ==
    IF test.hasTodo
    THEN IF test.passed
         THEN [call |-> "passed", id |-> item.id, duration |-> test.duration]
         ELSE [call |-> "skipped", id |-> item.id]
    ELSE IF test.hasSkip THEN [call |-> "skipped", id |-> item.id]
    ELSE IF test.passed
    THEN [call |-> "passed", id |-> item.id, duration |-> test.duration]
    ELSE [call |-> "failed", id |-> item.id,
          message |-> FailureMessage(test), duration |-> test.duration]

\* the call that presents the state of a test: run.skipped, run.passed or
\* run.failed
Outcome(item, test) ==
    IF test.hasSkip THEN [call |-> "skipped", id |-> item.id]
    ELSE IF test.hasTodo
    THEN IF test.passed
         THEN [call |-> "passed", id |-> item.id, duration |-> test.duration]
         ELSE [call |-> "skipped", id |-> item.id]
    ELSE IF test.passed
    THEN [call |-> "passed", id |-> item.id, duration |-> test.duration]
    ELSE [call |-> "failed", id |-> item.id,
          message |-> FailureMessage(test), duration |-> test.duration]

\* the calls on the run of one iteration of the for loop over allTestItems
Report(item, test) ==
    << [call |-> "started", id |-> item.id] >>
    \o (IF Len(test.output) > 0
        THEN << [call |-> "appendOutput", id |-> item.id,
                 output |-> JoinWith(test.output, "\r\n") \o "\r\n"] >>
        ELSE << >>)
    \o << Outcome(item, test) >>

TestsState ==
    [items |-> items, testItems |-> testItems, allTestItems |-> allTestItems]

\* updateTestsForDocument up to the loop over the groups: the document is
\* tracked, the file item is looked up or created, the text is parsed and
\* the children of the file item are cleared
UpdateTestsBegin ==
    /\ op = "updateTests" /\ pc = "scan"
    /\ documents' = documents \cup {Uri}
    /\ LET fileItem == TestItem(Uri, "", FileName(UriPath), << >>)
           kept == IF \E x \in items : x.parent = "" /\ x.id = Uri
                   THEN items ELSE AddItem(items, fileItem)
       IN  items' = kept \ ItemsUnder(kept, Uri)
    /\ groups' = ParseRun(Split(text))
    /\ allTestItems' = << >>
    /\ i' = 0
    /\ pc' = "groups"
    /\ UNCHANGED << text, op, lines, currentGroup, currentTest,
                    lastTestNumber, foldVars, testItems, run, diagVars >>

\* one iteration of the for loop over the groups
UpdateTestsGroup ==
    /\ op = "updateTests" /\ pc = "groups" /\ i < Len(groups)
    /\ LET st == AddGroup(TestsState, groups, i)
       IN  /\ items' = st.items
           /\ testItems' = st.testItems
           /\ allTestItems' = st.allTestItems
    /\ i' = i + 1
    /\ UNCHANGED << text, op, pc, lines, parseVars, foldVars, documents, run,
                    diagVars >>

\* controller.createTestRun for the items of allTestItems
UpdateTestsCreateRun ==
    /\ op = "updateTests" /\ pc = "groups" /\ i = Len(groups)
    /\ run' = [state |-> "running",
               request |-> [n \in 1..Len(allTestItems) |->
                                allTestItems[n].item.id],
               calls |-> << >>]
    /\ i' = 0
    /\ pc' = "run"
    /\ UNCHANGED << text, op, lines, parseVars, foldVars, documents, items,
                    testItems, allTestItems, diagVars >>

\* one iteration of the for loop over allTestItems
UpdateTestsReport ==
    /\ op = "updateTests" /\ pc = "run" /\ i < Len(allTestItems)
    /\ run' = [run EXCEPT !.calls =
                   @ \o Report(allTestItems[i + 1].item,
                               allTestItems[i + 1].test)]
    /\ i' = i + 1
    /\ UNCHANGED << text, op, pc, lines, parseVars, foldVars, documents,
                    items, testItems, allTestItems, diagVars >>

\* run.end()
UpdateTestsEndRun ==
    /\ op = "updateTests" /\ pc = "run" /\ i = Len(allTestItems)
    /\ run' = [run EXCEPT !.state = "ended"]
    /\ pc' = "done"
    /\ UNCHANGED << text, op, lines, i, parseVars, foldVars, documents,
                    items, testItems, allTestItems, diagVars >>

NextTests ==
    \/ UpdateTestsBegin
    \/ UpdateTestsGroup
    \/ UpdateTestsCreateRun
    \/ UpdateTestsReport
    \/ UpdateTestsEndRun

(***************************************************************************)
(* Diagnostics provider: TapDiagnosticsProvider.updateDiagnostics.         *)
(***************************************************************************)
\* /^(\s*)(not ok)\s+(\d+)(?:\s+-\s+(.*))?/ applied to a line; m4 is "" when
\* group 4 took no part
NOT_OK_REGEX(line) ==
    LET p1 == SpanSpace(line, 1)
        p2 == p1 + 6
        p3 == SpanSpace(line, p2)
        p4 == SpanDigit(line, p3)
        p5 == SpanSpace(line, p4)
        p6 == SpanSpace(line, p5 + 1)
        dash == /\ p5 > p4
                /\ p5 <= Len(line) /\ Char(line, p5) = "-"
                /\ p6 > p5 + 1
    IN  IF StartsWithAt(line, p1, "not ok") /\ p3 > p2 /\ p4 > p3
        THEN [matched |-> TRUE,
              m1 |-> SubSeq(line, 1, p1 - 1),
              m2 |-> "not ok",
              m3 |-> SubSeq(line, p3, p4 - 1),
              m4 |-> IF dash THEN SubSeq(line, p6, SpanDot(line, p6) - 1)
                     ELSE ""]
        ELSE NoMatch

\* IsFailure with || in place of &&
IsFailure_Either(hasTodo, hasSkip) == ~hasTodo \/ ~hasSkip

\* !hasTodo && !hasSkip
IsFailure(hasTodo, hasSkip) == ~hasTodo /\ ~hasSkip

\* description.replace(/#.*$/, '').trim()
WithoutComment(description) ==
    Trim(SubSeq(description, 1, SpanToHash(description, 1) - 1))

\* the diagnostics pushed for line k: none or one
DiagnosticsOf(line, k) ==
    LET notOkMatch == NOT_OK_REGEX(line)
        indent == Len(notOkMatch.m1)
        testNumber == notOkMatch.m3
        description == IF notOkMatch.m4 # "" THEN notOkMatch.m4
                       ELSE "Test " \o testNumber
        hasTodo == HasTodo(line)
        hasSkip == HasSkip(line)
        range == VsRange(k, indent, k, Len(line))
    IN  IF ~notOkMatch.matched THEN << >>
        ELSE IF IsFailure(hasTodo, hasSkip)
        THEN << [range |-> range,
                 message |-> "Test failed: " \o WithoutComment(description),
                 severity |-> "Error",
                 source |-> "TAP",
                 code |-> "not-ok-" \o testNumber] >>
        ELSE IF hasTodo
        THEN << [range |-> range,
                 message |-> "TODO: " \o WithoutComment(description),
                 severity |-> "Warning",
                 source |-> "TAP",
                 code |-> "todo-" \o testNumber] >>
        ELSE << >>

\* updateDiagnostics of a document that is no TAP document: returns at once
DiagnosticsReturn ==
    /\ op = "diagnostics" /\ pc = "scan" /\ languageId # "tap"
    /\ pc' = "done"
    /\ UNCHANGED << text, op, lines, i, parseVars, foldVars, testVars,
                    diagVars >>

\* one iteration of the for loop of updateDiagnostics
DiagnosticsLine ==
    /\ op = "diagnostics" /\ pc = "scan" /\ languageId = "tap"
    /\ i < Len(lines)
    /\ diagnostics' = diagnostics \o DiagnosticsOf(Line(i), i)
    /\ i' = i + 1
    /\ UNCHANGED << text, op, pc, lines, parseVars, foldVars, testVars,
                    languageId, diagnosticCollection >>

\* after the loop: diagnosticCollection.set(document.uri, diagnostics)
DiagnosticsSet ==
    /\ op = "diagnostics" /\ pc = "scan" /\ languageId = "tap"
    /\ i = Len(lines)
    /\ diagnosticCollection' = << diagnostics >>
    /\ pc' = "done"
    /\ UNCHANGED << text, op, lines, i, parseVars, foldVars, testVars,
                    languageId, diagnostics >>

NextDiagnostics == DiagnosticsReturn \/ DiagnosticsLine \/ DiagnosticsSet

\* the operations of the providers on the documents of HostLineSet
InitHost ==
    InitWith({"parse", "updateTests", "diagnostics"}, HostDocs(MaxHostLines))
NextHost == NextParse \/ NextTests \/ NextDiagnostics
SpecHost == InitHost /\ [][NextHost]_vars

\* every operation, on every document
Init == InitOf({"parse", "planStack", "currentTest"})
Next == NextParse \/ NextFold
Spec == Init /\ [][Next]_vars

(***************************************************************************)
(* Properties of the grouping pass.                                        *)
(***************************************************************************)
\* line k is a test-result line, a test-plan line of the grouping pass
IsResultLine(k) == TEST_RESULT_REGEX(Line(k)).matched
IsPlanLine(k) == TEST_PLAN_REGEX(Line(k)).matched

\* the loop of parseTapContent is about to read line i
Scanning == op = "parse" /\ pc = "scan" /\ i < Len(lines)

\* parseTapContent has returned groups
Parsed == op = "parse" /\ pc = "done"

\* the ordinal written on the test-result line k
OrdinalOf(k) == ParseInt(TEST_RESULT_REGEX(Line(k)).m3)

\* the open group holds at least one record
GroupHasTests == currentGroup # << >> /\ Len(currentGroup[1].tests) > 0

\* the last record of the open group
LastRecord == currentGroup[1].tests[Len(currentGroup[1].tests)]

\* the record of line i is the last of the open group after the step
RecordStored(r) ==
    /\ r.line = i
    /\ r.testNumber = OrdinalOf(i)
    /\ r.fullLine = Line(i)
    /\ r.output = << >>

\* C1: when a test-result line is scanned while the open group holds
\* records, an ordinal <= the ordinal of the group's previous record seals
\* the group and makes the new record the first of a new group; a greater
\* ordinal appends the record to the same group.
C1_ResetSealsElseAppends ==
    [][ (Scanning /\ IsResultLine(i) /\ GroupHasTests)
        => IF OrdinalOf(i) <= LastRecord.testNumber
           THEN /\ groups' = Append(groups, currentGroup[1])
                /\ currentGroup'[1].line = i
                /\ Len(currentGroup'[1].tests) = 1
                /\ RecordStored(currentGroup'[1].tests[1])
           ELSE /\ groups' = groups
                /\ currentGroup'[1].line = currentGroup[1].line
                /\ Len(currentGroup'[1].tests) = Len(currentGroup[1].tests) + 1
                /\ SubSeq(currentGroup'[1].tests, 1, Len(currentGroup[1].tests))
                       = currentGroup[1].tests
                /\ RecordStored(currentGroup'[1].tests[Len(currentGroup'[1].tests)])
      ]_vars

\* a group of two records with rising ordinals was sealed by a repeated
\* ordinal, whose record opened the next group
C1_Witness ==
    /\ op = "parse" /\ Len(groups) = 1
    /\ Len(groups[1].tests) = 2
    /\ groups[1].tests[1].testNumber < groups[1].tests[2].testNumber
    /\ GroupHasTests
    /\ Len(currentGroup[1].tests) = 1
    /\ LastRecord.testNumber <= groups[1].tests[2].testNumber
    /\ currentGroup[1].line = LastRecord.line

\* every group built so far: the sealed ones and the open one
AllGroups == groups \o (IF pc = "done" THEN << >> ELSE currentGroup)

\* some test-plan line lies strictly between lines a and b
PlanBetween(a, b) == \E k \in (a + 1)..(b - 1) : IsPlanLine(k)

\* C2: every test-plan line seals the open group if there is one, with or
\* without tests, opens an empty group named from the plan's range, resets
\* lastTestNumber to 0 and clears the current test; the first test-result
\* line after a plan line seals nothing; and no group ever holds two
\* records with a plan line between them.
C2_PlanSealsAndResets ==
    /\ [][ /\ (Scanning /\ IsPlanLine(i))
              => /\ groups' = IF currentGroup # << >>
                              THEN Append(groups, currentGroup[1])
                              ELSE groups
                 /\ currentGroup' =
                        << [name |-> "Tests " \o Trim(Line(i)),
                            line |-> i, tests |-> << >>] >>
                 /\ lastTestNumber' = 0
                 /\ currentTest' = 0
           /\ (Scanning /\ IsResultLine(i) /\ i > 0 /\ IsPlanLine(i - 1))
              => /\ groups' = groups
                 /\ currentGroup'[1].line = i - 1
                 /\ Len(currentGroup'[1].tests) = 1
         ]_vars
    /\ [](\A g \in 1..Len(AllGroups) :
             \A a, b \in 1..Len(AllGroups[g].tests) :
                 ~PlanBetween(AllGroups[g].tests[a].line,
                              AllGroups[g].tests[b].line))

\* a plan line sealed a group without tests, and the records around a plan
\* line carry overlapping ordinals in distinct groups
C2_Witness ==
    /\ Parsed /\ Len(groups) = 3
    /\ Len(groups[1].tests) = 1
    /\ Len(groups[2].tests) = 0
    /\ Len(groups[3].tests) = 1
    /\ groups[3].tests[1].testNumber > groups[1].tests[1].testNumber
    /\ IsPlanLine(groups[2].line) /\ IsPlanLine(groups[3].line)

\* C3: in every group returned by parse the ordinals of the records, in
\* sequence order, never decrease.
C3_OrdinalsNonDecreasing ==
    Parsed =>
        \A g \in 1..Len(groups) :
            \A a \in 1..(Len(groups[g].tests) - 1) :
                groups[g].tests[a].testNumber
                    <= groups[g].tests[a + 1].testNumber

\* a falling ordinal was met: two groups were returned, the second opened
\* by a record whose ordinal is below the last one of the first
C3_Witness ==
    /\ Parsed /\ Len(groups) = 2
    /\ Len(groups[1].tests) = 2 /\ Len(groups[2].tests) = 2
    /\ groups[2].tests[1].testNumber < groups[1].tests[2].testNumber
    /\ ~PlanBetween(groups[1].line, groups[2].line + 1)

\* line k holds at least one character that is not whitespace
NonBlank(k) == \E p \in 1..Len(Line(k)) : ~IsSpace(Char(Line(k), p))

\* index of the first test-result or test-plan line after line k, or the
\* number of lines if there is none
NextStructural(k) ==
    LET S == { n \in (k + 1)..(Len(lines) - 1) :
                   IsResultLine(n) \/ IsPlanLine(n) }
    IN  IF S = {} THEN Len(lines)
        ELSE CHOOSE n \in S : \A m \in S : n <= m

\* the non-blank lines among lines a..b, in document order
RECURSIVE NonBlankLines(_, _)
NonBlankLines(a, b) ==
    IF a > b THEN << >>
    ELSE (IF NonBlank(a) THEN << Line(a) >> ELSE << >>)
             \o NonBlankLines(a + 1, b)

\* C4: the output of every record is exactly the non-blank lines after the
\* record's line and before the next test-result or test-plan line (or the
\* end of input), in document order.
C4_OutputIsNonBlankWindow ==
    Parsed =>
        \A g \in 1..Len(groups) :
            \A a \in 1..Len(groups[g].tests) :
                LET r == groups[g].tests[a]
                IN  r.output =
                        NonBlankLines(r.line + 1, NextStructural(r.line) - 1)

\* a record is followed by a blank line and a YAML opener before a plan
\* line, and a diagnostic line follows the plan line
C4_Witness ==
    /\ Parsed /\ Len(lines) = 4
    /\ IsResultLine(0) /\ Line(1) # "" /\ ~NonBlank(1)
    /\ IsYamlOpen(Line(2)) /\ IsPlanLine(3)
    /\ groups[1].tests[1].output = << Line(2) >>

\* C5: the group open at end of input is sealed even without tests: every
\* test-plan line gives exactly one group, and a text with no test-plan and
\* no test-result line gives no group.
C5_LastGroupSealed ==
    Parsed =>
        /\ currentGroup # << >> =>
               /\ groups # << >>
               /\ groups[Len(groups)] = currentGroup[1]
        /\ \A k \in 0..(Len(lines) - 1) :
               IsPlanLine(k) =>
                   Cardinality({ g \in 1..Len(groups) : groups[g].line = k })
                       = 1
        /\ (\A k \in 0..(Len(lines) - 1) : ~IsPlanLine(k) /\ ~IsResultLine(k))
               => groups = << >>

\* the text ends with a plan line and diagnostics: its group has no tests
C5_Witness ==
    /\ Parsed /\ Len(lines) = 3
    /\ IsPlanLine(1) /\ ~IsPlanLine(2) /\ ~IsResultLine(2)
    /\ Len(groups) = 2
    /\ groups[2].line = 1 /\ groups[2].tests = << >>

(***************************************************************************)
(* Properties of the folding passes.                                       *)
(***************************************************************************)
\* provideFoldingRanges has returned foldingRanges
Folded == op \in {"planStack", "currentTest"} /\ pc = "done"

\* the trimmed text of line k is '---', is '...'
OpensYaml(k) == Trim(Line(k)) = "---"
ClosesYaml(k) == Trim(Line(k)) = "..."

\* the lines after line k whose trimmed text is '...'
ClosersAfter(k) == { j \in (k + 1)..(Len(lines) - 1) : ClosesYaml(j) }

\* the positions in foldingRanges of the Region ranges that start at line k
RegionsAt(k) ==
    { n \in 1..Len(foldingRanges) :
          foldingRanges[n].kind = "Region" /\ foldingRanges[n].start = k }

\* C6: in both folding policies, for every '---' line (never a plan or
\* test-result line) that has a '...' line after it, exactly one Region
\* range starts at it, and it ends at the first '...' line after it.
C6_YamlRegionToFirstCloser ==
    Folded =>
        \A k \in 0..(Len(lines) - 1) :
            (OpensYaml(k) /\ ~IsResultLine(k) /\ ~IsPlanLine(k)
                 /\ ClosersAfter(k) # {})
            => /\ Cardinality(RegionsAt(k)) = 1
               /\ \A n \in RegionsAt(k) :
                      /\ foldingRanges[n].end \in ClosersAfter(k)
                      /\ \A j \in ClosersAfter(k) : foldingRanges[n].end <= j

\* two openers are followed by two closers: both regions end at the first
C6_Witness ==
    /\ Folded /\ op = "planStack" /\ Len(lines) = 4
    /\ OpensYaml(0) /\ OpensYaml(1) /\ ClosesYaml(2) /\ ClosesYaml(3)
    /\ foldingRanges = << RegionRange(0, 2), RegionRange(1, 2) >>

\* a line that is no plan, test result, YAML delimiter or blank line
PlainLine == "# plain"

\* what the policy in use returns for the lines ls
FoldRun(ls) ==
    IF op = "planStack" THEN PlanStackRun(ls) ELSE CurrentTestRun(ls)

\* C7: in both folding policies a '---' line with no '...' line after it
\* gives no Region range, and the ranges returned are those returned for
\* the document with that line replaced by a plain line.
C7_UnterminatedYamlIsPlain ==
    Folded =>
        \A k \in 0..(Len(lines) - 1) :
            (OpensYaml(k) /\ ClosersAfter(k) = {})
            => /\ RegionsAt(k) = {}
               /\ foldingRanges = FoldRun([lines EXCEPT ![k + 1] = PlainLine])

\* a closed YAML block and a test are followed by an unterminated opener:
\* the block and the test still fold
C7_Witness ==
    /\ Folded /\ op = "currentTest" /\ Len(lines) = 4
    /\ OpensYaml(3) /\ IsResultLine(2)
    /\ foldingRanges = << RegionRange(0, 1), FoldingRange(2, 3) >>

\* C8: in both folding policies every range has
\* 0 <= start <= end <= number of lines - 1.
C8_RangesWithinDocument ==
    \A n \in 1..Len(foldingRanges) :
        /\ 0 <= foldingRanges[n].start
        /\ foldingRanges[n].start <= foldingRanges[n].end
        /\ foldingRanges[n].end <= Len(lines) - 1

\* a plan opened on the first line is closed against the last line, around
\* a YAML block
C8_Witness ==
    /\ Folded /\ op = "planStack" /\ Len(lines) = 4
    /\ foldingRanges = << RegionRange(1, 2), FoldingRange(0, 3) >>

\* the plan-stack loop is about to read line i, has left the loop
StackScanning == op = "planStack" /\ pc = "scan" /\ i < Len(lines)
StackEnding == op = "planStack" /\ pc = "scan" /\ i = Len(lines)

\* line k is a test-plan line of the plan-stack pass
IsStackPlanLine(k) == TrimmedPlanMatch(Trim(Line(k))).matched

\* number of whitespace characters line k starts with
LeadingSpaces(k) == SpanSpace(Line(k), 1) - 1

\* the entries of the stack st with indentation below d, in stack order
RECURSIVE Shallower(_, _)
Shallower(st, d) ==
    IF st = << >> THEN << >>
    ELSE (IF Head(st).indent < d THEN << Head(st) >> ELSE << >>)
             \o Shallower(Tail(st), d)

\* the ranges pushed by the step
NewRanges ==
    { foldingRanges'[n] : n \in (Len(foldingRanges) + 1)..Len(foldingRanges') }

\* the step pushed ranges only, and the given set of them
PushedExactly(S) ==
    /\ Len(foldingRanges') = Len(foldingRanges) + Cardinality(S)
    /\ SubSeq(foldingRanges', 1, Len(foldingRanges)) = foldingRanges
    /\ NewRanges = S

\* C9: on a plan line at line i with indentation d every stack entry with
\* indentation >= d is popped and closed against line i - 1, the entries
\* with indentation < d stay, and {startLine: i, indent: d} is pushed; at
\* end of input every entry is popped and closed against the last line.
\* (Closing pushes the range unless it would hold one line only.)
C9_PlanPopsDeeperEntries ==
    [][ /\ (StackScanning /\ IsStackPlanLine(i))
           => /\ stack' = Append(Shallower(stack, LeadingSpaces(i)),
                                 [startLine |-> i, indent |-> LeadingSpaces(i)])
              /\ PushedExactly(
                     { FoldingRange(stack[n].startLine, i - 1) :
                           n \in { m \in 1..Len(stack) :
                                       /\ stack[m].indent >= LeadingSpaces(i)
                                       /\ stack[m].startLine < i - 1 } })
        /\ StackEnding
           => /\ stack' = << >>
              /\ PushedExactly(
                     { FoldingRange(stack[n].startLine, Len(lines) - 1) :
                           n \in { m \in 1..Len(stack) :
                                       stack[m].startLine < Len(lines) - 1 } })
      ]_vars

\* a nested plan was closed by its sibling while the outer plan stayed open
C9_Witness ==
    /\ op = "planStack" /\ pc = "scan" /\ i = 4
    /\ stack = << [startLine |-> 0, indent |-> 0],
                  [startLine |-> 3, indent |-> 2] >>
    /\ foldingRanges = << FoldingRange(1, 2) >>

\* C10: under the plan-stack policy a range is pushed for a popped entry
\* only if it spans more than its start line: the plan line that closes it
\* (or the end of input) lies strictly after the line following the entry's
\* start line.
C10_StructuralRangeSpansLines ==
    [][ op = "planStack"
        => \A r \in NewRanges :
               r.kind = "none"
               => /\ r.end > r.start
                  /\ StackScanning => (r.end = i - 1 /\ i > r.start + 1)
                  /\ StackEnding
                     => (r.end = Len(lines) - 1 /\ Len(lines) > r.start + 1)
      ]_vars

\* three plan lines: the first is closed by its neighbour and the last by
\* the end of input without a range, the second spans two lines
C10_Witness ==
    /\ Folded /\ op = "planStack" /\ Len(lines) = 4
    /\ IsStackPlanLine(0) /\ IsStackPlanLine(1) /\ IsStackPlanLine(3)
    /\ foldingRanges = << FoldingRange(1, 2) >>

(***************************************************************************)
(* More properties of the folding passes.                                  *)
(***************************************************************************)
\* the ranges of foldingRanges that are no YAML regions, in order
StructuralRanges == SelectSeq(foldingRanges, LAMBDA r : r.kind = "none")

\* the elements of a sequence
Range(sq) == { sq[n] : n \in 1..Len(sq) }

\* the records of the groups gs, group after group
RECURSIVE Records(_)
Records(gs) == IF gs = << >> THEN << >> ELSE Head(gs).tests \o Records(Tail(gs))

\* C11: under the current-test policy the non-YAML ranges are exactly the
\* ranges (c, n - 1), one for every test-result line c whose next
\* test-result or test-plan line (or the end of input) n lies beyond c + 1;
\* so nothing between a plan line and the next test-result line is folded.
\* With test-result lines at c and c + 2 around a blank line no range starts
\* at the blank line and parseTapContent stores no output for the record.
C11_CurrentTestRanges ==
    (Folded /\ op = "currentTest") =>
        /\ Range(StructuralRanges) =
               { FoldingRange(c, NextStructural(c) - 1) :
                     c \in { k \in 0..(Len(lines) - 1) :
                                 /\ IsResultLine(k)
                                 /\ NextStructural(k) > k + 1 } }
        /\ Len(StructuralRanges) = Cardinality(Range(StructuralRanges))
        /\ \A c \in 0..(Len(lines) - 3) :
               (IsResultLine(c) /\ ~NonBlank(c + 1) /\ IsResultLine(c + 2))
               => /\ \A r \in Range(foldingRanges) : r.start # c + 1
                  /\ \A rec \in Range(Records(ParseRun(lines))) :
                         rec.line = c => rec.output = << >>

\* two test-result lines around a blank line and a plan line right after
\* the second: the first folds over the blank line, the second does not fold
C11_Witness ==
    /\ Folded /\ op = "currentTest" /\ Len(lines) = 4
    /\ IsResultLine(0) /\ ~NonBlank(1) /\ IsResultLine(2) /\ IsPlanLine(3)
    /\ foldingRanges = << FoldingRange(0, 1) >>

(***************************************************************************)
(* C12: presentation of a test record by updateTestsForDocument.           *)
(***************************************************************************)
Reporting == op = "updateTests" /\ pc \in {"run", "done"}

\* the calls of the run that present a state for the item id
OutcomeCalls(id) ==
    SelectSeq(run.calls,
              LAMBDA c : c.id = id /\ c.call \in {"passed", "skipped", "failed"})

\* the row of the mapping table of a record
TableState(test) ==
    CASE test.hasSkip -> "skipped"
      [] ~test.hasSkip /\ test.hasTodo /\ test.passed -> "passed"
      [] ~test.hasSkip /\ test.hasTodo /\ ~test.passed -> "skipped"
      [] ~test.hasSkip /\ ~test.hasTodo /\ test.passed -> "passed"
      [] ~test.hasSkip /\ ~test.hasTodo /\ ~test.passed -> "failed"

\* C12: every record reported to the run is presented as the mapping table
\* says: skipped when hasSkip; else with hasTodo passed or skipped as the
\* line passed or not; else passed when it passed; else failed, with the
\* output lines joined as message, or 'Test failed: {description}' when the
\* record has no output.
C12_PresentationFollowsTable ==
    Reporting =>
        \A n \in 1..(IF pc = "done" THEN Len(allTestItems) ELSE i) :
            LET test == allTestItems[n].test
                calls == OutcomeCalls(allTestItems[n].item.id)
            IN  /\ Len(calls) = 1
                /\ calls[1].call = TableState(test)
                /\ calls[1].call = "failed" =>
                       calls[1].message.text =
                           IF test.output = << >>
                           THEN "Test failed: " \o test.description
                           ELSE JoinWith(test.output, "\n")

C12_Witness ==
    /\ Reporting /\ pc = "done"
    /\ \E n \in 1..Len(allTestItems) :
           /\ allTestItems[n].test.hasSkip /\ allTestItems[n].test.hasTodo
           /\ allTestItems[n].test.passed
           /\ OutcomeCalls(allTestItems[n].item.id)[1].call = "skipped"
    /\ \E n \in 1..Len(allTestItems) :
           /\ Len(allTestItems[n].test.output) = 1
           /\ OutcomeCalls(allTestItems[n].item.id)[1].call = "failed"

(***************************************************************************)
(* C13: the directive flags of a record.                                   *)
(***************************************************************************)
\* the comment of a line: the text from its first '#' to its end
Comment(line) == SubSeq(line, SpanToHash(line, 1), Len(line))

IsWordChar(c) ==
    \/ c \in DOMAIN LowerOf
    \/ c \in { LowerOf[u] : u \in DOMAIN LowerOf }
    \/ IsDigit(c)
    \/ c = "_"

\* s contains t, in any letter case, as a token: with no letter, digit or
\* underscore next to it
ContainsToken(s, t) ==
    \E p \in 1..Len(s) :
        /\ p + Len(t) - 1 <= Len(s)
        /\ ToLowerCase(SubSeq(s, p, p + Len(t) - 1)) = ToLowerCase(t)
        /\ p = 1 \/ ~IsWordChar(Char(s, p - 1))
        /\ p + Len(t) > Len(s) \/ ~IsWordChar(Char(s, p + Len(t)))

\* s contains the characters of t, in any letter case, one after the other
ContainsLiteral(s, t) ==
    \E p \in 1..Len(s) :
        /\ p + Len(t) - 1 <= Len(s)
        /\ \A n \in 1..Len(t) :
               ToLowerChar(Char(s, p + n - 1)) = ToLowerChar(Char(t, n))

\* the records of the groups built so far
RecordsSoFar == Range(Records(AllGroups))

CleanedDescription(line) ==
    LET match == TEST_RESULT_REGEX(line)
    IN  Description(match.m4, ParseInt(match.m3))

\* s[a..b] is whitespace, at least one character of it
AllSpace(s, a, b) == a <= b /\ \A n \in a..b : IsSpace(Char(s, n))

\* s is <digits> or <digits>.<digits>
IsNumber(s) ==
    \E dot \in 2..(Len(s) + 1) :
        /\ \A n \in 1..(dot - 1) : IsDigit(Char(s, n))
        /\ \/ dot = Len(s) + 1
           \/ /\ Char(s, dot) = "." /\ dot < Len(s)
              /\ \A n \in (dot + 1)..Len(s) : IsDigit(Char(s, n))

\* the ways d ends with whitespace, 'in', whitespace, a number and a unit:
\* << p, b, u >> with the clause at p, its number at b, its unit of u letters
Clauses(d) ==
    UNION {
        IF /\ u < Len(d)
           /\ ToLowerCase(SubSeq(d, Len(d) - u + 1, Len(d))) =
                  (IF u = 2 THEN "ms" ELSE "s")
        THEN { << c[1], c[2], u >> :
                 c \in { x \in (1..Len(d))
                              \X { b \in 1..(Len(d) - u) :
                                       IsNumber(SubSeq(d, b, Len(d) - u)) } :
                             \E a \in (x[1] + 1)..(x[2] - 3) :
                                 /\ AllSpace(d, x[1], a - 1)
                                 /\ ToLowerCase(SubSeq(d, a, a + 1)) = "in"
                                 /\ AllSpace(d, a + 2, x[2] - 1) } }
        ELSE {} : u \in {1, 2} }

\* duration is the number of the clause c of d in milliseconds
IsMilliseconds(duration, d, c) ==
    LET value == ParseFloat(SubSeq(d, c[2], Len(d) - c[3]))
        factor == IF c[3] = 1 THEN 1000 ELSE 1
    IN  /\ duration # << >>
        /\ duration[1].num * value.den = value.num * factor * duration[1].den

\* C14: a record whose cleaned description ends with whitespace, 'in',
\* whitespace, a number and 'ms' or 's' in any letter case has that number
\* as duration, in milliseconds, and its description without the clause,
\* which is not empty; every other record has no duration and its cleaned
\* description.  'ok 1 - done in 1.5s' gives 1500 and 'done'.
C14_DurationClause ==
    Parsed =>
        \A rec \in RecordsSoFar :
            LET d == CleanedDescription(rec.fullLine)
                cs == Clauses(d)
            IN  /\ cs # {} =>
                       /\ \A c \in cs : IsMilliseconds(rec.duration, d, c)
                       /\ \E c \in cs :
                              rec.description = Trim(SubSeq(d, 1, c[1] - 1))
                       /\ rec.description # ""
                /\ cs = {} =>
                       rec.duration = << >> /\ rec.description = d
                /\ rec.fullLine = "ok 1 - done in 1.5s" =>
                       /\ rec.duration = << [num |-> 1500, den |-> 1] >>
                       /\ rec.description = "done"

C14_Witness ==
    /\ Parsed
    /\ \E a, b, c \in RecordsSoFar :
           /\ a.fullLine = "ok 1 - done in 1.5s"
           /\ a.duration = << [num |-> 1500, den |-> 1] >>
           /\ a.description = "done"
           /\ b.fullLine = "ok 2 - e In 304MS # SKIP"
           /\ b.duration = << [num |-> 304, den |-> 1] >>
           /\ b.description = "e"
           /\ c.fullLine = "ok 2 - in 5ms"
           /\ c.duration = << >>
           /\ c.description = "in 5ms"

(***************************************************************************)
(* C15: the names of the groups.                                           *)
(***************************************************************************)
\* C15: in the groups returned, a group opened by a plan line is named
\* 'Tests S..E' with the plan's two ordinals as written; a group opened by a
\* test-result line is the first group and named 'Tests' when no group was
\* open, and otherwise, opened by a reset of the ordinals, it is named
\* 'Tests (group N)' with N its 1-based position in the groups returned.
C15_GroupNames ==
    Parsed =>
        \A g \in 1..Len(groups) :
            LET k == groups[g].line
            IN  /\ IsPlanLine(k) \/ IsResultLine(k)
                /\ IsPlanLine(k) =>
                       groups[g].name = "Tests " \o Trim(Line(k))
                /\ (~IsPlanLine(k) /\ g = 1) => groups[g].name = "Tests"
                /\ (~IsPlanLine(k) /\ g > 1) =>
                       /\ groups[g].name =
                              "Tests (group " \o ToString(g) \o ")"
                       /\ Len(groups[g - 1].tests) > 0
                       /\ OrdinalOf(k) <=
                              groups[g - 1].tests[Len(groups[g - 1].tests)]
                                  .testNumber

C15_Witness ==
    /\ Parsed /\ Len(groups) = 3
    /\ groups[1].name = "Tests 1..2"
    /\ groups[2].name = "Tests (group 2)"
    /\ groups[3].name = "Tests (group 3)"

(***************************************************************************)
(* C16: the diagnostics of a document.                                     *)
(***************************************************************************)
Diagnosed == op = "diagnostics" /\ pc = "done" /\ languageId = "tap"

\* line k is a 'not ok' line with its number
IsNotOkLine(k) ==
    TEST_RESULT_REGEX(Line(k)).matched /\ TEST_RESULT_REGEX(Line(k)).m2 = "not ok"

\* the number of diagnostics of ds of the given severity on line k
CountAt(ds, k, severity) ==
    Cardinality({ n \in 1..Len(ds) :
                    ds[n].range[1] = k /\ ds[n].severity = severity })

\* C16: updateDiagnostics of a 'tap' document sets the diagnostics of the
\* document: on every 'not ok' line one Error if and only if the line has
\* neither '# TODO' nor '# SKIP' and one Warning if and only if it has
\* '# TODO'; nothing on a 'not ok' line with '# SKIP' and no '# TODO', nor
\* on any other line; never an Error on a line with a directive.
C16_DiagnosticsPerNotOkLine ==
    Diagnosed =>
        /\ diagnosticCollection # << >>
        /\ LET ds == diagnosticCollection[1]
           IN  /\ \A n \in 1..Len(ds) :
                      /\ ds[n].range[1] \in 0..(Len(lines) - 1)
                      /\ ds[n].severity \in {"Error", "Warning"}
               /\ \A k \in 0..(Len(lines) - 1) :
                      LET todo == ContainsLiteral(Line(k), "# TODO")
                          skip == ContainsLiteral(Line(k), "# SKIP")
                      IN  /\ CountAt(ds, k, "Error") =
                                 (IF IsNotOkLine(k) /\ ~todo /\ ~skip
                                  THEN 1 ELSE 0)
                          /\ CountAt(ds, k, "Warning") =
                                 (IF IsNotOkLine(k) /\ todo THEN 1 ELSE 0)

C16_Witness ==
    /\ Diagnosed
    /\ lines = << "not ok 2 - b", "not ok 1 - c # skip",
                  "not ok 2 # SKIP # TODO" >>
    /\ Len(diagnosticCollection[1]) = 2
    /\ diagnosticCollection[1][1].severity = "Error"
    /\ diagnosticCollection[1][1].range = VsRange(0, 0, 0, 12)
    /\ diagnosticCollection[1][2].severity = "Warning"
    /\ diagnosticCollection[1][2].range[1] = 2

(***************************************************************************)
(* C17: the records are the test-result lines, in order.                   *)
(***************************************************************************)
\* the lines read so far
LinesRead == IF pc = "done" THEN Len(lines) ELSE i

\* C17: the records of the groups, group after group, are the test-result
\* lines read, one record for each, in document order with strictly
\* increasing line indices, each holding its line; and the start lines of
\* the groups are strictly increasing.
C17_RecordsAreResultLines ==
    op = "parse" =>
        LET recs == Records(AllGroups)
        IN  /\ { recs[n].line : n \in 1..Len(recs) } =
                   { k \in 0..(LinesRead - 1) : IsResultLine(k) }
            /\ \A n, m \in 1..Len(recs) :
                   n < m => recs[n].line < recs[m].line
            /\ \A n \in 1..Len(recs) :
                   recs[n].fullLine = Line(recs[n].line)
            /\ \A g, h \in 1..Len(AllGroups) :
                   g < h => AllGroups[g].line < AllGroups[h].line

C17_Witness ==
    /\ Parsed /\ Len(groups) = 3
    /\ \A g \in 1..3 : Len(groups[g].tests) > 0
    /\ Len(Records(groups)) = 4
    /\ \E n \in 1..3 :
           Records(groups)[n].testNumber = Records(groups)[n + 1].testNumber

(***************************************************************************)
(* C18: the stack of the plan-stack policy and the shape of its ranges.    *)
(***************************************************************************)
\* the ranges r and q share no line
Disjoint(r, q) == r.end < q.start \/ q.end < r.start

\* every line of q is a line of r
Contains(r, q) == r.start <= q.start /\ q.end <= r.end

\* C18: in the plan-stack policy the entries of the stack have, at every
\* step, strictly increasing indentation and strictly increasing start
\* lines from bottom to top, and any two ranges without kind pushed for a
\* document are disjoint or one contains the other.
C18_StackOrderedRangesLaminar ==
    op = "planStack" =>
        /\ \A n, m \in 1..Len(stack) :
               n < m => /\ stack[n].indent < stack[m].indent
                        /\ stack[n].startLine < stack[m].startLine
        /\ \A n, m \in 1..Len(StructuralRanges) :
               n # m => LET r == StructuralRanges[n]
                            q == StructuralRanges[m]
                        IN  \/ Disjoint(r, q)
                            \/ Contains(r, q)
                            \/ Contains(q, r)

C18_Witness ==
    /\ op = "planStack" /\ pc = "scan" /\ i = 4
    /\ Len(stack) = 2 /\ stack[2].indent = 2 /\ stack[2].startLine = 3
    /\ StructuralRanges = << FoldingRange(1, 2) >>

(***************************************************************************)
(* C19: one item per record, and its calls on the run.                     *)
(***************************************************************************)
\* the items of the tree that are neither the file item nor a group item
LeafItems ==
    { x \in items :
        /\ x.parent # ""
        /\ \A g \in 0..(Len(groups) - 1) : x.id # GroupId(g) }

\* the calls of the run on the item id, output left aside
CallsOn(id) ==
    SelectSeq(run.calls, LAMBDA c : c.id = id /\ c.call # "appendOutput")

\* C19: once the groups are turned into items, every record of the parsed
\* document has its own item, no two of them with the same id, so there are
\* as many test items as records; and the run, from its creation to its
\* end, calls started once on each item and then exactly one of passed,
\* skipped and failed.
C19_OneItemPerRecord ==
    Reporting =>
        LET recs == Records(groups)
            reported == IF pc = "done" THEN Len(allTestItems) ELSE i
        IN  /\ Len(allTestItems) = Len(recs)
            /\ \A n \in 1..Len(recs) : allTestItems[n].test = recs[n]
            /\ \A n, m \in 1..Len(recs) :
                   n # m => allTestItems[n].item.id # allTestItems[m].item.id
            /\ LeafItems = { allTestItems[n].item : n \in 1..Len(recs) }
            /\ Cardinality(LeafItems) = Len(recs)
            /\ Cardinality({ x.id : x \in items }) = Cardinality(items)
            /\ run.state = (IF pc = "done" THEN "ended" ELSE "running")
            /\ \A n \in 1..Len(recs) :
                   LET calls == CallsOn(allTestItems[n].item.id)
                   IN  IF n <= reported
                       THEN /\ Len(calls) = 2
                            /\ calls[1].call = "started"
                            /\ calls[2].call \in
                                   {"passed", "skipped", "failed"}
                       ELSE calls = << >>

C19_Witness ==
    /\ Reporting /\ pc = "done"
    /\ Len(groups) = 2 /\ Len(allTestItems) = 3
    /\ allTestItems[1].test.testNumber = allTestItems[3].test.testNumber
    /\ Cardinality(LeafItems) = 3
    /\ Len(run.calls) >= 6

====
